---- MODULE Spec2Model ----
(***************************************************************************)
(* Model of measure.py: "keyboard mode" for a Leica Disto D2 over BLE.     *)
(*                                                                         *)
(* One asyncio event loop runs the main coroutine and one task per BLE     *)
(* notification (bleak wraps the coroutine callback in a task).  A step of *)
(* the model is one step of the event loop: a task runs from the point     *)
(* where it was suspended up to its next suspension (a GATT write that is  *)
(* awaited, the aim-delay sleep, a contended counter_lock) or to its end.  *)
(***************************************************************************)
EXTENDS Integers, Sequences, FiniteSets, TLC

VARIABLES
    mainpc,           \* where main() is suspended
    client,           \* scan_and_connect returned a client
    cmdChar,          \* the device exposes COMMAND_CHARACTERISTIC_UUID
    distChar,         \* the device exposes DISTANCE_CHARACTERISTIC_UUID
    sigRegistered,    \* loop.add_signal_handler(SIGINT, ...) was called
    subscribed,       \* start_notify has returned and the link is still up
    disconnect_event, \* asyncio.Event disconnect_event
    sigint,           \* an interrupt signal was delivered to the process
    mainExc,          \* an exception reached main()'s except clause
    steps,            \* lifecycle calls made by main(), in order
    button_clicked,   \* asyncio.Event button_clicked
    miss_counter,     \* global miss_counter
    lockOwner,        \* counter_lock: 0 when free, else the task holding it
    lockWaiters,      \* counter_lock: tasks suspended in acquire(), in order
    tasks,            \* one record per notification callback task
    writes,           \* write_gatt_char calls on the command characteristic
    keys,             \* xdotool invocations
    devices,          \* what BleakScanner.discover() returns, in scan order
    service_uuid,     \* the service_uuid argument of scan_and_connect
    target_device     \* scan_and_connect's target_device: -1 before the scan,
                      \* 0 for None, else its position in devices

vars == <<mainpc, client, cmdChar, distChar, sigRegistered, subscribed,
          disconnect_event, sigint, mainExc, steps, button_clicked,
          miss_counter, lockOwner, lockWaiters, tasks, writes, keys,
          devices, service_uuid, target_device>>

\* ---------------------------------------------------------------- bounds
MaxNotifs == 4
MaxDevices == 2

\* ------------------------------------------------------------- constants
LASER_ON == 111     \* 0x6F
MEASURE == 103      \* 0x67
LASER_OFF == 112    \* 0x70
PayloadLen == 4     \* struct.unpack("<f", data) takes exactly 4 bytes

\* Payloads: an empty one and 0.5 m are delivered; 1.2345 m is a second
\* sample for the formatting.
EmptyPayload == <<>>
HalfMeter == <<0, 0, 0, 63>>
Sample == <<25, 4, 158, 63>>
Payloads == {EmptyPayload, HalfMeter}

\* Readings for the formatting: normal binary32 values between 0.03 m and
\* 8 m, of both signs, HalfMeter and Sample among them.
FormatSamples ==
    {<<b1, b2, b3, b4>> : b1 \in {0, 25, 205}, b2 \in {0, 4, 204},
                          b3 \in {0, 30, 158, 204}, b4 \in {61, 63, 64, 191}}

MainId == 0

\* ------------------------------------------------------------- scanning
\* UUIDs are sequences of characters, abbreviated to their first three: the
\* default service_uuid "3ab10100-..." is <<"3", "a", "b">>.
ServiceUuid == <<"3", "a", "b">>
Filters == {<<"3", "a", "b">>, <<"3", "A", "B">>, <<"3", "A", "b">>}
AdvertisedUuids == {<<"3", "a", "b">>, <<"3", "A", "B">>, <<"3", "a", "c">>}

\* str.lower() on one character
LowerChar(c) == CASE c = "A" -> "a" [] c = "B" -> "b" [] c = "C" -> "c" [] OTHER -> c

\* str.lower()
Lower(u) == [i \in 1..Len(u) |-> LowerChar(u[i])]

\* The comparison the comment of line 58 names: case-insensitive on both sides.
UuidMatches_both_lowered(d, filter) ==
    \E u \in d.uuids : Lower(u) = Lower(filter)

\* service_uuid.lower() in d.metadata["uuids"]  (line 58)
UuidMatches(d, filter) == Lower(filter) \in d.uuids

\* The for loop of lines 55-60 from position i: the first matching device.
RECURSIVE FindTarget(_, _, _)
FindTarget(devs, filter, i) ==
    IF i > Len(devs) THEN 0
    ELSE IF UuidMatches(devs[i], filter) THEN i
    ELSE FindTarget(devs, filter, i + 1)

\* Every device list of at most MaxDevices devices.
DeviceLists ==
    UNION {[1..n -> [uuids : SUBSET AdvertisedUuids]] : n \in 0..MaxDevices}

\* ---------------------------------------------------- float formatting
Pow2(n) == IF n <= 0 THEN 1 ELSE 2 ^ n

\* struct.unpack("<f", data): the three fields of a little-endian binary32.
unpack_f(data) ==
    [sign |-> data[4] \div 128,
     exp  |-> (data[4] % 128) * 2 + data[3] \div 128,
     frac |-> (data[3] % 128) * 65536 + data[2] * 256 + data[1]]

\* Fault variant of the ".1f" format: the value is cut after one decimal.
Tenths_truncated(f) ==
    LET E == IF f.exp = 0 THEN 1 ELSE f.exp
        M == IF f.exp = 0 THEN f.frac ELSE 8388608 + f.frac
        r == 146 - E
    IN  IF r >= 12
        THEN (IF r > 42 THEN 0
              ELSE (625 * (M \div 4096) + (625 * (M % 4096)) \div 4096) \div Pow2(r - 12))
        ELSE 625 * (M \div 4096) * Pow2(12 - r) + (625 * (M % 4096)) \div Pow2(r)

\* round(x * 1000 * 10) with ties to even, for the finite binary32 x = f:
\* x*10000 = M * 625 * 2^(E-146), computed exactly in two 12-bit halves of M.
Tenths(f) ==
    LET E  == IF f.exp = 0 THEN 1 ELSE f.exp
        M  == IF f.exp = 0 THEN f.frac ELSE 8388608 + f.frac
        A  == 625 * (M \div 4096)
        B  == 625 * (M % 4096)
        r  == 146 - E
    IN  IF r >= 12
        THEN LET rr == r - 12
                 A2 == A + B \div 4096
                 rb == B % 4096
                 P  == Pow2(rr)
                 q  == IF rr > 30 THEN 0 ELSE A2 \div P
                 rm == IF rr > 30 THEN A2 ELSE A2 % P
                 more == IF rr = 0 THEN rb > 2048
                         ELSE IF rr > 30 THEN FALSE
                         ELSE rm > P \div 2 \/ (rm = P \div 2 /\ rb > 0)
                 half == IF rr = 0 THEN rb = 2048
                         ELSE IF rr > 30 THEN FALSE
                         ELSE rm = P \div 2 /\ rb = 0
             IN  q + (IF more \/ (half /\ q % 2 = 1) THEN 1 ELSE 0)
        ELSE LET P  == Pow2(r)
                 q  == A * Pow2(12 - r) + B \div P
                 rm == B % P
                 more == r > 0 /\ 2 * rm > P
                 half == r > 0 /\ 2 * rm = P
             IN  q + (IF more \/ (half /\ q % 2 = 1) THEN 1 ELSE 0)

Digit(d) == CASE d = 0 -> "0" [] d = 1 -> "1" [] d = 2 -> "2" [] d = 3 -> "3"
              [] d = 4 -> "4" [] d = 5 -> "5" [] d = 6 -> "6" [] d = 7 -> "7"
              [] d = 8 -> "8" [] d = 9 -> "9"

RECURSIVE IntStr(_)
IntStr(n) == IF n < 10 THEN Digit(n) ELSE IntStr(n \div 10) \o Digit(n % 10)

\* f"{distance_mm:.1f}" where distance_mm = unpack("<f", data)[0] * 1000
FormatMm(data) ==
    LET f == unpack_f(data)
    IN  IF f.exp = 255
        THEN (IF f.frac # 0 THEN "nan" ELSE IF f.sign = 1 THEN "-inf" ELSE "inf")
        ELSE (IF f.sign = 1 THEN "-" ELSE "")
             \o IntStr(Tenths(f) \div 10) \o "." \o Digit(Tenths(f) % 10)

\* ------------------------------------------------- keystroke emitter
\* Fault variant of send_keys: no try/except, the exception escapes.
send_keys_uncaught(s, text, ok) ==
    [s EXCEPT !.keys = Append(@, [by |-> s.h, key |-> "type", text |-> text, ok |-> ok]),
              !.exc = ~ok]

\* send_keys(keys): subprocess.call(['xdotool','type',keys]) inside try/except;
\* ok = FALSE is the call raising.  The exception is printed, never re-raised.
send_keys(s, text, ok) ==
    [s EXCEPT !.keys = Append(@, [by |-> s.h, key |-> "type", text |-> text, ok |-> ok]),
              !.exc = FALSE]

\* Fault variant of send_enter: no try/except, the exception escapes.
send_enter_uncaught(s, ok) ==
    [s EXCEPT !.keys = Append(@, [by |-> s.h, key |-> "Return", text |-> "", ok |-> ok]),
              !.exc = ~ok]

\* send_enter(): subprocess.call(['xdotool','key','Return']) inside try/except.
send_enter(s, ok) ==
    [s EXCEPT !.keys = Append(@, [by |-> s.h, key |-> "Return", text |-> "", ok |-> ok]),
              !.exc = FALSE]

\* ---------------------------------------------------- task bookkeeping
\* The task ends (returns or raises); the arbiter state it leaves is recorded.
Finish(s, pc) ==
    [s EXCEPT !.task.pc = pc, !.task.post = <<s.button, s.miss>>]

\* The task is suspended at an await.
Suspend(s, pc) == [s EXCEPT !.task.pc = pc]

\* asyncio.Lock.acquire returns without suspending only when the lock is
\* free and nobody is queued for it.
CanAcquire(s) == s.owner = 0 /\ s.waiters = <<>>

Acquire(s) == [s EXCEPT !.owner = s.h]

\* acquire() on a held lock: queue a waiter and suspend.
WaitLock(s, pc) == Suspend([s EXCEPT !.waiters = Append(@, s.h)], pc)

\* A woken waiter leaves the queue and takes the lock.
Granted(s) == [s EXCEPT !.owner = s.h, !.waiters = Tail(@)]

\* asyncio.Lock.release (the exit of "async with counter_lock").
Release(s) == [s EXCEPT !.owner = 0]

\* ------------------------------------------------------ device session
\* do_measure up to its first await (lines 87-95).
do_measure(s) ==
    LET s1 == [s EXCEPT !.task.path = "arm"]
    IN  IF ~cmdChar
        THEN Finish(s1, "done")
        ELSE Suspend([s1 EXCEPT !.writes = Append(@, [by |-> s.h, byte |-> LASER_ON])],
                     "laser_on")

\* Fault variant of line 95: a failed write rolls the arbiter back.
do_measure_sleep_rollback(s, ok) ==
    IF ok THEN Suspend(s, "aim")
          ELSE Finish([s EXCEPT !.button = FALSE, !.miss = 0], "raised")

\* The laser-on write returns (line 95) and the aim delay starts (line 96).
do_measure_sleep(s, ok) ==
    IF ok THEN Suspend(s, "aim") ELSE Finish(s, "raised")

\* The aim delay is over: the measure write is issued (line 97).
do_measure_write(s) ==
    Suspend([s EXCEPT !.writes = Append(@, [by |-> s.h, byte |-> MEASURE])], "measure")

\* The measure write returns: do_measure and the handler return (line 136).
do_measure_end(s, ok) ==
    Finish(s, IF ok THEN "done" ELSE "raised")

\* clear_device up to its await (lines 101-107); su tells whether it suspended.
clear_device(s) ==
    IF ~cmdChar
    THEN [s EXCEPT !.su = FALSE]
    ELSE [s EXCEPT !.writes = Append(@, [by |-> s.h, byte |-> LASER_OFF]),
                   !.su = TRUE]

\* ------------------------------------------------ notification arbiter
\* Fault variant of line 125: "miss_counter > 0".
BadState_off_by_one(m) == m > 0

\* line 125
BadState(m) == m > 1

\* line 122
IncrMiss(s) == [s EXCEPT !.miss = @ + 1]

\* Fault variant of line 139: miss_counter is not reset.
ResetMiss_omitted(s) == s

\* line 139
ResetMiss(s) == [s EXCEPT !.miss = 0]

\* Fault variant of line 149: button_clicked is not cleared.
ClearButton_omitted(s) == s

\* line 149
ClearButton(s) == [s EXCEPT !.button = FALSE]

\* The laser-off write of the "bad state" branch returns (lines 133-134);
\* leaving the "async with" block releases counter_lock either way.
bad_state_end(s, ok) ==
    Finish(Release(s), IF ok THEN "done" ELSE "raised")

\* lines 125-136, holding counter_lock
check_counter(s) ==
    IF BadState(s.miss)
    THEN LET s1 == clear_device([s EXCEPT !.button = FALSE, !.task.path = "bad"])
         IN  IF s1.su THEN Suspend(s1, "clear_write")
                      ELSE Finish(Release(s1), "done")
    ELSE do_measure(Release(s))

\* line 124
lock_check(s) ==
    IF CanAcquire(s) THEN check_counter(Acquire(s)) ELSE WaitLock(s, "lock124")

\* lines 122-124, holding counter_lock
count_miss(s) == lock_check(Release(IncrMiss(s)))

\* lines 120-121
lock_count(s) ==
    IF CanAcquire(s) THEN count_miss(Acquire(s)) ELSE WaitLock(s, "lock121")

\* lines 139-149, holding counter_lock: a payload that is not 4 bytes makes
\* struct.unpack raise struct.error, which ends the task.
take_reading(s, kOk, eOk) ==
    LET s1 == Release(ResetMiss(s))
    IN  IF Len(s.task.data) # PayloadLen
        THEN Finish(s1, "raised")
        ELSE LET s2 == send_keys([s1 EXCEPT !.task.path = "reading"],
                                 FormatMm(s.task.data), kOk)
             IN  IF s2.exc THEN Finish(s2, "raised")
                 ELSE LET s3 == send_enter(s2, eOk)
                      IN  IF s3.exc THEN Finish(s3, "raised")
                          ELSE Finish(ClearButton(s3), "done")

\* line 138
lock_reading(s, kOk, eOk) ==
    IF CanAcquire(s) THEN take_reading(Acquire(s), kOk, eOk)
                     ELSE WaitLock(s, "lock138")

\* Fault variant of line 119: the test of button_clicked is missing, every
\* notification is counted as a button press.
handle_untested(s, kOk, eOk) ==
    lock_count([s EXCEPT !.task.pre = <<s.button, s.miss>>, !.button = TRUE])

\* Fault variant of line 120: button_clicked.set() is missing.
handle_no_set(s, kOk, eOk) ==
    LET s0 == [s EXCEPT !.task.pre = <<s.button, s.miss>>]
    IN  IF ~s0.button THEN lock_count(s0) ELSE lock_reading(s0, kOk, eOk)

\* handle_distance_notification from its first line (lines 116-138).
handle_distance_notification(s, kOk, eOk) ==
    LET s0 == [s EXCEPT !.task.pre = <<s.button, s.miss>>]
    IN  IF ~s0.button
        THEN lock_count([s0 EXCEPT !.button = TRUE])
        ELSE lock_reading(s0, kOk, eOk)

\* One step of task h: from where it is suspended to its next suspension.
Resume(s, ok, kOk, eOk) ==
    CASE s.task.pc = "created"     -> handle_distance_notification(s, kOk, eOk)
      [] s.task.pc = "lock121"     -> count_miss(Granted(s))
      [] s.task.pc = "lock124"     -> check_counter(Granted(s))
      [] s.task.pc = "lock138"     -> take_reading(Granted(s), kOk, eOk)
      [] s.task.pc = "clear_write" -> bad_state_end(s, ok)
      [] s.task.pc = "laser_on"    -> do_measure_sleep(s, ok)
      [] s.task.pc = "aim"         -> do_measure_write(s)
      [] s.task.pc = "measure"     -> do_measure_end(s, ok)

LockWaitPcs == {"lock121", "lock124", "lock138"}
EndPcs == {"done", "raised", "cancelled"}

\* The event loop can run task h now: a new task starts after the tasks
\* created before it, a lock waiter runs once the lock was released to it,
\* an awaited write or sleep can complete at any time.
Runnable(h) ==
    /\ tasks[h].pc \notin EndPcs
    /\ tasks[h].pc = "created" => \A g \in 1..(h - 1) : tasks[g].pc # "created"
    /\ tasks[h].pc \in LockWaitPcs => lockOwner = 0 /\ Head(lockWaiters) = h

NewTask(data) ==
    [pc |-> "created", data |-> data, path |-> "none", pre |-> <<>>, post |-> <<>>]

\* asyncio.run cancels the tasks still pending when main() has returned.
CancelAll(ts) ==
    [h \in 1..Len(ts) |->
        IF ts[h].pc \in EndPcs THEN ts[h] ELSE [ts[h] EXCEPT !.pc = "cancelled"]]

\* --------------------------------------------------- session lifecycle
\* Fault variant of line 163: the wait does not block.
EventWaitReturns_unset(flag) == TRUE

\* disconnect_event.wait() returns at once when the event is set (line 163).
EventWaitReturns(flag) == flag

\* finally: await client.disconnect()  (lines 191-192)
main_disconnect(m) ==
    [m EXCEPT !.pc = "disconnecting", !.steps = Append(@, "disconnect")]

\* Fault variant of lines 189-192: no finally clause after the except.
main_except_no_finally(m) == [m EXCEPT !.exc = TRUE, !.pc = "done"]

\* except Exception as e: print("Error:", e)  (lines 189-190)
main_except(m) == main_disconnect([m EXCEPT !.exc = TRUE])

\* start_notify has returned: the device delivers notifications from now on;
\* await disconnect_event.wait()  (lines 160-163)
handle_notifications_wait(m) ==
    LET m1 == [m EXCEPT !.subscribed = TRUE, !.steps = Append(@, "wait")]
    IN  IF EventWaitReturns(m1.event) THEN main_disconnect(m1)
                                      ELSE [m1 EXCEPT !.pc = "waiting"]

\* handle_notifications up to the awaited start_notify (lines 154-160)
handle_notifications(m) ==
    IF ~distChar
    THEN main_disconnect(m)
    ELSE [m EXCEPT !.pc = "start_notify", !.steps = Append(@, "subscribe")]

\* add_signal_handler and the call of handle_notifications (lines 184-188)
main_register(m) ==
    handle_notifications([m EXCEPT !.registered = TRUE,
                                   !.steps = Append(@, "register")])

\* Fault variant of line 183: the initial clear_device call is missing.
main_clear_skipped(m) == main_register(m)

\* await clear_device(client) in main (line 183)
main_clear(m) ==
    LET m1 == clear_device([m EXCEPT !.steps = Append(@, "disarm")])
    IN  IF m1.su THEN [m1 EXCEPT !.pc = "clear_write"] ELSE main_register(m1)

\* main() once scan_and_connect has returned (lines 180-183)
main(m, found) ==
    IF ~found
    THEN [m EXCEPT !.pc = "done"]
    ELSE main_clear([m EXCEPT !.client = TRUE, !.steps = Append(@, "connect")])

\* Fault variant of line 174: disconnect_event.set() is missing.
handle_keyboard_interrupt_no_set(ev) == ev

\* handle_keyboard_interrupt (lines 171-174)
handle_keyboard_interrupt(ev) == TRUE

MainRec ==
    [h |-> MainId, pc |-> mainpc, client |-> client, registered |-> sigRegistered,
     subscribed |-> subscribed, event |-> disconnect_event, exc |-> mainExc,
     steps |-> steps, writes |-> writes, su |-> FALSE, target |-> target_device]

SetMain(m) ==
    /\ mainpc' = m.pc
    /\ client' = m.client
    /\ sigRegistered' = m.registered
    /\ subscribed' = m.subscribed
    /\ mainExc' = m.exc
    /\ steps' = m.steps
    /\ writes' = m.writes
    /\ target_device' = m.target

TaskRec(h) ==
    [h |-> h, task |-> tasks[h], button |-> button_clicked, miss |-> miss_counter,
     owner |-> lockOwner, waiters |-> lockWaiters, writes |-> writes,
     keys |-> keys, su |-> FALSE, exc |-> FALSE]

SetTask(s) ==
    /\ tasks' = [tasks EXCEPT ![s.h] = s.task]
    /\ button_clicked' = s.button
    /\ miss_counter' = s.miss
    /\ lockOwner' = s.owner
    /\ lockWaiters' = s.waiters
    /\ writes' = s.writes
    /\ keys' = s.keys

arbiterVars == <<button_clicked, miss_counter, lockOwner, lockWaiters>>
mainVars == <<mainpc, client, sigRegistered, subscribed, mainExc, steps>>
deviceVars == <<cmdChar, distChar, devices, service_uuid>>

\* ------------------------------------------------------------- actions
InitProgram ==
    /\ mainpc = "scan"
    /\ client = FALSE
    /\ cmdChar \in BOOLEAN
    /\ distChar \in BOOLEAN
    /\ sigRegistered = FALSE
    /\ subscribed = FALSE
    /\ disconnect_event = FALSE
    /\ sigint = FALSE
    /\ mainExc = FALSE
    /\ steps = <<>>
    /\ button_clicked = FALSE
    /\ miss_counter = 0
    /\ lockOwner = 0
    /\ lockWaiters = <<>>
    /\ tasks = <<>>
    /\ writes = <<>>
    /\ keys = <<>>
    /\ target_device = -1

\* A session: main() calls scan_and_connect() with the default service_uuid;
\* no device is in range, or the Disto is, advertising the service.
Init ==
    /\ InitProgram
    /\ service_uuid = ServiceUuid
    /\ devices \in {<<>>, <<[uuids |-> {ServiceUuid}]>>}

\* The button was pressed: the first notification has armed the device and
\* is in its aim delay, the notification carrying the reading has arrived.
InitFormat ==
    /\ mainpc = "waiting"
    /\ client = TRUE
    /\ cmdChar = TRUE
    /\ distChar = TRUE
    /\ sigRegistered = TRUE
    /\ subscribed = TRUE
    /\ disconnect_event = FALSE
    /\ sigint = FALSE
    /\ mainExc = FALSE
    /\ steps = <<"connect", "disarm", "register", "subscribe", "wait">>
    /\ button_clicked = TRUE
    /\ miss_counter = 1
    /\ lockOwner = 0
    /\ lockWaiters = <<>>
    /\ \E data \in FormatSamples :
          tasks = <<[pc |-> "aim", data |-> EmptyPayload, path |-> "arm",
                     pre |-> <<FALSE, 0>>, post |-> <<>>],
                    NewTask(data)>>
    /\ writes = <<[by |-> MainId, byte |-> LASER_OFF], [by |-> 1, byte |-> LASER_ON]>>
    /\ keys = <<>>
    /\ service_uuid = ServiceUuid
    /\ devices = <<[uuids |-> {ServiceUuid}]>>
    /\ target_device = 1

\* scan_and_connect on its own: any filter, any devices in range.
InitScan ==
    /\ InitProgram
    /\ service_uuid \in Filters
    /\ devices \in DeviceLists

\* scan_and_connect returns: a client, or None (no device matched, or
\* connect() raised).
ScanAndConnect ==
    /\ mainpc = "scan"
    /\ LET t == FindTarget(devices, service_uuid, 1)
       IN  \E ok \in BOOLEAN :
               SetMain(main([MainRec EXCEPT !.target = t], t # 0 /\ ok))
    /\ UNCHANGED <<arbiterVars, deviceVars, disconnect_event, sigint, tasks, keys>>

\* The laser-off write of main's clear_device returns or raises.
ClearDeviceReturns ==
    /\ mainpc = "clear_write"
    /\ \E ok \in BOOLEAN :
         SetMain(IF ok THEN main_register(MainRec) ELSE main_except(MainRec))
    /\ UNCHANGED <<arbiterVars, deviceVars, disconnect_event, sigint, tasks, keys>>

\* start_notify returns or raises.
StartNotifyReturns ==
    /\ mainpc = "start_notify"
    /\ \E ok \in BOOLEAN :
         SetMain(IF ok THEN handle_notifications_wait(MainRec)
                       ELSE main_except([MainRec EXCEPT !.subscribed = FALSE]))
    /\ UNCHANGED <<arbiterVars, deviceVars, disconnect_event, sigint, tasks, keys>>

\* main is woken from disconnect_event.wait().
EventWake ==
    /\ mainpc = "waiting"
    /\ EventWaitReturns(disconnect_event)
    /\ SetMain(main_disconnect(MainRec))
    /\ UNCHANGED <<arbiterVars, deviceVars, disconnect_event, sigint, tasks, keys>>

\* client.disconnect() returns or raises: main() ends and asyncio.run
\* cancels what is left.
DisconnectReturns ==
    /\ mainpc = "disconnecting"
    /\ mainpc' = "done"
    /\ subscribed' = FALSE
    /\ tasks' = CancelAll(tasks)
    /\ UNCHANGED <<client, sigRegistered, mainExc, steps, arbiterVars, deviceVars,
                   disconnect_event, sigint, writes, keys, target_device>>

\* SIGINT with the handler installed: handle_keyboard_interrupt runs.
Interrupt ==
    /\ mainpc # "done"
    /\ sigRegistered
    /\ sigint' = TRUE
    /\ disconnect_event' = handle_keyboard_interrupt(disconnect_event)
    /\ UNCHANGED <<mainVars, arbiterVars, deviceVars, tasks, writes, keys,
                   target_device>>

\* SIGINT before the handler is installed: KeyboardInterrupt, asyncio.run
\* cancels main() at its await; the finally clause runs if it was entered.
KeyboardInterrupt ==
    /\ mainpc # "done"
    /\ ~sigRegistered
    /\ sigint' = TRUE
    /\ SetMain(IF mainpc = "clear_write" THEN main_disconnect(MainRec)
                                        ELSE [MainRec EXCEPT !.pc = "done"])
    /\ UNCHANGED <<arbiterVars, deviceVars, disconnect_event, tasks, keys>>

\* The device sends a notification: bleak creates a task for the callback.
Notify ==
    /\ subscribed
    /\ mainpc # "done"
    /\ Len(tasks) < MaxNotifs
    /\ \E data \in Payloads : tasks' = Append(tasks, NewTask(data))
    /\ UNCHANGED <<mainVars, arbiterVars, deviceVars, disconnect_event, sigint,
                   writes, keys, target_device>>

\* The event loop runs one step of a notification task.
TaskStep ==
    /\ mainpc # "done"
    /\ \E h \in 1..Len(tasks) :
         /\ Runnable(h)
         /\ \E ok, kOk, eOk \in BOOLEAN : SetTask(Resume(TaskRec(h), ok, kOk, eOk))
    /\ UNCHANGED <<mainVars, deviceVars, disconnect_event, sigint, target_device>>

Next ==
    \/ ScanAndConnect
    \/ ClearDeviceReturns
    \/ StartNotifyReturns
    \/ EventWake
    \/ DisconnectReturns
    \/ Interrupt
    \/ KeyboardInterrupt
    \/ Notify
    \/ TaskStep

Spec == Init /\ [][Next]_vars

\* The event loop resumes a coroutine whose awaited event is set.
FairSpec == Spec /\ WF_vars(EventWake)

\* scan_and_connect applied to every filter and device list.
NextScan == ScanAndConnect

ScanSpec == InitScan /\ [][NextScan]_vars

\* The handler applied to every sample reading.
NextFormat == TaskStep

FormatSpec == InitFormat /\ [][NextFormat]_vars

\* ---------------------------------------------------------- type check
TypeOK ==
    /\ mainpc \in {"scan", "clear_write", "start_notify", "waiting",
                   "disconnecting", "done"}
    /\ miss_counter \in 0..MaxNotifs
    /\ lockOwner \in 0..MaxNotifs
    /\ Len(tasks) <= MaxNotifs

\* ------------------------------------------------------ claim helpers
Started(h) == tasks[h].pre # <<>>
Handled(h) == tasks[h].pc \in {"done", "raised"}
KeysBy(h) == SelectSeq(keys, LAMBDA k : k.by = h)
WellFormed(h) == Len(tasks[h].data) = PayloadLen
Disconnects == Len(SelectSeq(steps, LAMBDA x : x = "disconnect"))
Bit(b) == IF b THEN 1 ELSE 0
KeyFailed(h) == \E i \in 1..Len(keys) : keys[i].by = h /\ ~keys[i].ok
TypedAndEntered(h) ==
    /\ Len(KeysBy(h)) = 2
    /\ KeysBy(h)[1].key = "type"
    /\ KeysBy(h)[1].text = FormatMm(tasks[h].data)
    /\ KeysBy(h)[2].key = "Return"

\* C1: a notification handled from {awaitingMeasurement = false, missCount = 0}
\* and followed by a notification with a 4-byte payload gives exactly one
\* do_measure call (by the first), exactly one send_keys call followed by one
\* send_enter call (by the second), and the arbiter is {false, 0} again when
\* the second handler has finished.
C1_EchoThenReading ==
    \A i \in 1..(Len(tasks) - 1) :
        (tasks[i].pre = <<FALSE, 0>> /\ WellFormed(i + 1) /\ Handled(i + 1)) =>
            /\ tasks[i].path = "arm"
            /\ tasks[i + 1].path = "reading"
            /\ KeysBy(i) = <<>>
            /\ TypedAndEntered(i + 1)
            /\ tasks[i + 1].post = <<FALSE, 0>>

C1_Witness ==
    /\ cmdChar
    /\ Len(tasks) >= 2
    /\ tasks[1].pre = <<FALSE, 0>>
    /\ tasks[1].data = EmptyPayload
    /\ tasks[1].path = "arm"
    /\ tasks[2].data = HalfMeter
    /\ tasks[2].pc = "done"
    /\ keys = <<[by |-> 2, key |-> "type", text |-> "500.0", ok |-> TRUE],
                [by |-> 2, key |-> "Return", text |-> "", ok |-> TRUE]>>
    /\ button_clicked = FALSE
    /\ miss_counter = 0

\* C2 (as the spec states it): two consecutive echo notifications (empty
\* payloads), the first handled with awaitingMeasurement = false, call
\* clear_device exactly once, type nothing, and leave the arbiter {false, 0}.
C2_TwoEchoesDisarm ==
    \A i \in 1..(Len(tasks) - 1) :
        (/\ cmdChar
         /\ Started(i) /\ tasks[i].pre[1] = FALSE
         /\ tasks[i].data = EmptyPayload /\ tasks[i + 1].data = EmptyPayload
         /\ Handled(i + 1)) =>
            /\ Bit(tasks[i].path = "bad") + Bit(tasks[i + 1].path = "bad") = 1
            /\ KeysBy(i) = <<>> /\ KeysBy(i + 1) = <<>>
            /\ tasks[i + 1].post = <<FALSE, 0>>

\* C3 (as the spec states it): a payload that is not 4 bytes long, handled
\* while awaitingMeasurement is true, types nothing and leaves the arbiter
\* {awaitingMeasurement = false, missCount = 0}.
C3_MalformedDiscarded ==
    \A h \in 1..Len(tasks) :
        (Handled(h) /\ tasks[h].pre[1] = TRUE /\ ~WellFormed(h)) =>
            /\ KeysBy(h) = <<>>
            /\ tasks[h].post = <<FALSE, 0>>

\* C4: missCount never exceeds 2.
C4_MissBound == miss_counter <= 2

C4_Witness ==
    /\ miss_counter = 1
    /\ Len(tasks) >= 3
    /\ \A h \in 1..3 : Started(h)
    /\ \E h \in 1..Len(tasks) : tasks[h].pc = "aim"

\* C6: disconnect() is attempted at most once, exactly once by the time
\* main() has ended if scan_and_connect returned a client, and never if it
\* returned none.
C6_DisconnectOnce ==
    /\ Disconnects <= 1
    /\ ~client => Disconnects = 0
    /\ (mainpc = "done" /\ client) => Disconnects = 1

C6_Witness ==
    /\ mainpc = "done"
    /\ client
    /\ mainExc
    /\ Disconnects = 1

\* C7: once the handler is registered and main waits in
\* disconnect_event.wait(), an interrupt leads to the disconnect attempt.
C7_InterruptLeadsToDisconnect ==
    (mainpc = "waiting" /\ sigRegistered /\ sigint) ~> (Disconnects = 1)

C7_Witness ==
    /\ sigint
    /\ disconnect_event
    /\ mainpc = "disconnecting"
    /\ \E h \in 1..Len(tasks) : tasks[h].pc = "aim"
    /\ \E h \in 1..Len(tasks) : tasks[h].pc = "created"

\* C8 (as the spec states it): with a client connected, the command
\* characteristic present and no exception raised in main, the session ends
\* only after an interrupt signal.
C8_OnlyInterruptEnds ==
    (client /\ cmdChar /\ ~mainExc /\ mainpc \in {"disconnecting", "done"}) => sigint

\* C8 (amended): with a client connected, the session keeps running unless
\* an interrupt arrived, the distance characteristic is missing, or an
\* exception reached main's except clause; failures inside notification
\* handlers never end it.
C8_SessionKeepsRunning ==
    (client /\ distChar /\ ~mainExc /\ ~sigint) =>
        mainpc \notin {"disconnecting", "done"}

C8_Witness ==
    /\ client /\ distChar /\ ~mainExc /\ ~sigint
    /\ mainpc = "waiting"
    /\ ~cmdChar
    /\ \E h \in 1..Len(tasks) : tasks[h].pc = "raised" /\ ~WellFormed(h)
    /\ \E h \in 1..Len(tasks) : KeyFailed(h)

\* C9: a reading whose send_keys or send_enter call failed is still handled
\* to the end, leaves the arbiter {false, 0}, and the next notification is
\* armed and the reading after it typed.
C9_KeystrokeFailureContinues ==
    \A h \in 1..Len(tasks) :
        KeyFailed(h) =>
            /\ tasks[h].pc = "done"
            /\ tasks[h].post = <<FALSE, 0>>
            /\ TypedAndEntered(h)
            /\ (h + 1 <= Len(tasks) /\ Started(h + 1)) => tasks[h + 1].path = "arm"
            /\ (h + 2 <= Len(tasks) /\ Handled(h + 2) /\ WellFormed(h + 2)) =>
                   TypedAndEntered(h + 2)

C9_Witness ==
    \E h \in 1..Len(tasks) :
        /\ KeyFailed(h)
        /\ h + 2 <= Len(tasks)
        /\ tasks[h + 1].path = "arm"
        /\ tasks[h + 2].pc = "done"
        /\ TypedAndEntered(h + 2)
        /\ mainpc = "waiting"

\* C10: a handler never suspends between its test of button_clicked and the
\* end of its updates of button_clicked and miss_counter: no task is ever
\* parked on counter_lock, the lock is free whenever the event loop picks a
\* task, and the first step of a handler applies one whole transition of the
\* arbiter (echo: set and count; reading: reset, and clear unless it raised).
C10_AtomicTransition ==
    [][\A h \in 1..Len(tasks) :
          /\ tasks'[h].pc \notin LockWaitPcs
          /\ lockOwner' = 0
          /\ (tasks[h].pc = "created" /\ tasks'[h].pc # "created"
                /\ tasks'[h].pc # "cancelled") =>
                \/ /\ ~button_clicked
                   /\ button_clicked'
                   /\ miss_counter' = miss_counter + 1
                   /\ button_clicked' = (tasks'[h].path = "arm")
                \/ /\ button_clicked
                   /\ miss_counter' = 0
                   /\ button_clicked' = (tasks'[h].pc = "raised")]_vars

C10_Witness ==
    /\ Len(tasks) >= 3
    /\ tasks[1].pc = "aim"
    /\ tasks[2].pc = "done"
    /\ tasks[3].pc = "laser_on"
    /\ button_clicked
    /\ miss_counter = 1

\* C11 (as the spec states it): scan_and_connect picks the first device, in
\* scan order, that advertises the filter under a case-insensitive
\* comparison, and finds none only when no device matches in that sense.
C11_FirstCaseInsensitiveMatch ==
    target_device >= 0 =>
        /\ \A i \in 1..Len(devices) :
               (/\ UuidMatches_both_lowered(devices[i], service_uuid)
                /\ \A j \in 1..(i - 1) :
                       ~UuidMatches_both_lowered(devices[j], service_uuid))
               => target_device = i
        /\ (\A i \in 1..Len(devices) :
               ~UuidMatches_both_lowered(devices[i], service_uuid))
               => target_device = 0

\* The binary32 value of a normal 4-byte little-endian payload is
\* (-1)^RefNeg * RefMant * 2^(RefExp - 150).
RefNeg(data) == data[4] >= 128
RefExp(data) == 2 * (data[4] % 128) + (IF data[3] >= 128 THEN 1 ELSE 0)
RefMant(data) == 8388608 + (data[3] % 128) * 65536 + data[2] * 256 + data[1]
Abs(n) == IF n < 0 THEN 0 - n ELSE n

\* T tenths of a millimetre is a nearest one-decimal value of |x| * 1000:
\* |RefMant * 625 - T * 2^(146 - RefExp)| <= 2^(146 - RefExp) / 2, written
\* with RefMant split in two 12-bit halves (for 12 <= 146 - RefExp <= 24).
IsNearestTenth(data, T) ==
    LET rr == 146 - RefExp(data) - 12
        d  == 625 * (RefMant(data) \div 4096) - T * Pow2(rr)
        D  == d * 4096 + 625 * (RefMant(data) % 4096)
    IN  /\ Abs(d) <= Pow2(rr) + 625
        /\ 2 * Abs(D) <= Pow2(rr) * 4096

RenderTenths(neg, T) ==
    (IF neg THEN "-" ELSE "") \o IntStr(T \div 10) \o "." \o Digit(T % 10)

TenthsWindow(data) ==
    LET rough == (625 * (RefMant(data) \div 4096)) \div Pow2(146 - RefExp(data) - 12)
    IN  (rough - 1)..(rough + 25)

\* C12: every typed string is the payload, read as a little-endian binary32
\* number of meters, times 1000, written with one decimal: the digits of a
\* nearest tenth of a millimetre; 0.5 m gives "500.0", 1.2345 m "1234.5".
C12_TypedMillimetres ==
    \A i \in 1..Len(keys) :
        keys[i].key = "type" =>
            LET data == tasks[keys[i].by].data
            IN  /\ \E T \in TenthsWindow(data) :
                       /\ IsNearestTenth(data, T)
                       /\ keys[i].text = RenderTenths(RefNeg(data), T)
                /\ data = HalfMeter => keys[i].text = "500.0"
                /\ data = Sample => keys[i].text = "1234.5"

C12_Witness ==
    /\ tasks[2].data = Sample
    /\ tasks[2].pc = "done"
    /\ keys = <<[by |-> 2, key |-> "type", text |-> "1234.5", ok |-> TRUE],
                [by |-> 2, key |-> "Return", text |-> "", ok |-> TRUE]>>

\* C13: main's lifecycle calls come in the order connect, initial disarm,
\* signal handler, subscription, wait, disconnect (a run that fails stops
\* short and goes to disconnect); no notification task exists and no handler
\* has written to the device before the initial disarm has returned.
LifecycleOrder == <<"connect", "disarm", "register", "subscribe", "wait", "disconnect">>

C13_LifecycleOrder ==
    LET n    == Len(steps)
        last == n > 0 /\ steps[n] = "disconnect"
        body == IF last THEN SubSeq(steps, 1, n - 1) ELSE steps
    IN  /\ Len(body) <= 5
        /\ body = SubSeq(LifecycleOrder, 1, Len(body))
        /\ client => Len(body) >= 2
        /\ ~client => steps = <<>>
        /\ (tasks # <<>> \/ \E i \in 1..Len(writes) : writes[i].by # MainId) =>
               /\ mainpc \notin {"scan", "clear_write"}
               /\ Len(body) = 5
        /\ (writes # <<>>) => writes[1] = [by |-> MainId, byte |-> LASER_OFF]

C13_Witness ==
    /\ steps = LifecycleOrder
    /\ mainpc = "done"
    /\ Len(writes) >= 3
    /\ \E h \in 1..Len(tasks) : tasks[h].path = "arm" /\ tasks[h].pc = "done"

\* C14 (as the spec states it): the write that follows an arm's laser-on
\* write on the command characteristic is that arm's own measure write.
C14_ArmWritesTogether ==
    \A i \in 1..(Len(writes) - 1) :
        writes[i].byte = LASER_ON =>
            writes[i + 1] = [by |-> writes[i].by, byte |-> MEASURE]

\* C15: the keystrokes are pairs, a reading's text and then its Enter, one
\* pair per handler, never interleaved with another handler's; the step that
\* sends them is the step that resets miss_counter and clears button_clicked,
\* and button_clicked is cleared by no other step.
KeyPairs(ks) ==
    /\ Len(ks) % 2 = 0
    /\ \A i \in 1..Len(ks) :
          /\ i % 2 = 1 => /\ ks[i].key = "type"
                          /\ ks[i + 1].key = "Return"
                          /\ ks[i + 1].by = ks[i].by
          /\ \A j \in 1..Len(ks) : (ks[j].by = ks[i].by /\ ks[j].key = ks[i].key) => j = i

C15_TextThenEnter ==
    [][/\ KeyPairs(keys')
       /\ keys' # keys =>
             /\ Len(keys') = Len(keys) + 2
             /\ SubSeq(keys', 1, Len(keys)) = keys
             /\ button_clicked
             /\ ~button_clicked'
             /\ miss_counter' = 0
       /\ (button_clicked /\ ~button_clicked') => keys' # keys]_vars

C15_Witness ==
    /\ Len(keys) = 4
    /\ keys[1].by = 2
    /\ keys[3].by = 4
    /\ tasks[1].pc = "aim"
    /\ tasks[3].pc = "aim"
    /\ ~button_clicked

\* C16: miss_counter is always 0 or 1, no handler takes the "bad state"
\* branch, and clear_device is called once, by main.
LaserOffCalls == Len(SelectSeq(steps, LAMBDA x : x = "disarm"))

Arms == Cardinality({h \in 1..Len(tasks) : tasks[h].path = "arm"})
Typed == Cardinality({h \in 1..Len(tasks) : tasks[h].path = "reading"})

C17_ArmsMinusReadings ==
    /\ Arms - Typed = Bit(button_clicked)
    /\ Typed * 2 = Len(keys)

C17_Witness ==
    /\ button_clicked
    /\ Arms = 2
    /\ Typed = 1
    /\ \E h \in 1..Len(tasks) : tasks[h].pc = "raised" /\ tasks[h].path = "none"

\* C18: when do_measure returns early (no command characteristic) or one of
\* its writes raises, button_clicked stays set and miss_counter stays 1 until
\* the next notification, which is handled as a reading, not as a press.
ArmFailed(h) ==
    /\ tasks[h].path = "arm"
    /\ tasks[h].pc = "raised" \/ (~cmdChar /\ tasks[h].pc = "done")

C18_NoRollback ==
    \A h \in 1..Len(tasks) :
        ArmFailed(h) =>
            IF h < Len(tasks) /\ Started(h + 1)
            THEN /\ tasks[h + 1].pre = <<TRUE, 1>>
                 /\ tasks[h + 1].path # "arm"
            ELSE button_clicked /\ miss_counter = 1

C18_Witness ==
    \E h \in 1..(Len(tasks) - 1) :
        /\ tasks[h].path = "arm"
        /\ tasks[h].pc = "raised"
        /\ Len(SelectSeq(writes, LAMBDA w : w.by = h)) = 1
        /\ tasks[h + 1].pre = <<TRUE, 1>>
        /\ tasks[h + 1].path = "reading"
        /\ tasks[h + 1].pc = "done"

====
